---- MODULE Spec2Model ----
(***************************************************************************)
(* Model of src/src/learning/cWGAN.py: the conditional Wasserstein GAN     *)
(* (classes cWGAN, cWGAN_mnist) and its training loop (classes Trainer,    *)
(* MNISTTrainer).                                                          *)
(*                                                                         *)
(* Spec      : the life of one trainer object: construction from a         *)
(*             params_dict, then train().  Network parameters are abstract *)
(*             values (the number of optimizer updates applied to the      *)
(*             initial weights); a recorded loss is the term saying which  *)
(*             batch draw and which parameter values it was computed from. *)
(* FairSpec  : Spec with weak fairness (the loop is a sequential program). *)
(* ModelSpec : one direct call of a method of a cWGAN or cWGAN_mnist       *)
(*             object on numeric critic outputs drawn from bounded sets.   *)
(***************************************************************************)
EXTENDS Integers, Sequences, FiniteSets, TLC

VARIABLES
    cfg,               \* the trainer class and its params_dict / data set size
    pc,                \* control point of the trainer
    error,             \* the exception that ended the run ("none" if none)
    model,             \* self.model (NoModel before / without construction)
    critic_losses,     \* self.critic_losses
    generator_losses,  \* self.generator_losses
    wass_estimates,    \* self.wass_estimates
    checkpoints,       \* the checkpoint files written, in order of writing
    batches_per_epoch, \* local of train()
    epoch,             \* local of train()
    batch_number,      \* local of train()
    critic_iter,       \* local of train()
    draws,             \* number of batches drawn by sample_batch_of_data
    x,                 \* the batch held by take_generator_step
    noise_draws,       \* number of noise tensors drawn by tf.random.uniform
    trace,             \* history: the steps train() has finished, in order
    call,              \* ModelSpec: the tensors of the pending direct call
    result,            \* ModelSpec: the value the direct call returned
    weights            \* ModelSpec: the numbers in the networks' layer weights

vars == <<cfg, pc, error, model, critic_losses, generator_losses,
          wass_estimates, checkpoints, batches_per_epoch, epoch,
          batch_number, critic_iter, draws, x, noise_draws, trace, call,
          result, weights>>

direct == <<call, result, weights>>

histories == <<critic_losses, generator_losses, wass_estimates>>

loop_counters == <<batches_per_epoch, epoch, batch_number, critic_iter>>

(***************************************************************************)
(* Bounds of the model.                                                    *)
(***************************************************************************)
MaxEpochs == 2
MaxExamples == 3
MaxBatch == 2
MaxCriticIters == 2
MaxInterval == 2

(***************************************************************************)
(* cWGAN.__init__ takes six arguments besides self.                        *)
(***************************************************************************)
InitArity == 6

TrainerClasses == {"Trainer", "MNISTTrainer"}

OptimizerNames == {"Adam", "RMSprop", "SGD"}

RecognizedOptimizers == {"RMSprop", "Adam"}

NoOptimizer == [kind |-> "unset", iterations |-> 0]

NoModel == [cls |-> "none"]

NoCall == [method |-> "none"]

NoResult == [num |-> 0, den |-> 0]

NoWeights == [critic |-> <<>>, generator |-> <<>>]

(***************************************************************************)
(* Output shapes of the keras layers used by the image networks.           *)
(***************************************************************************)
CeilDiv(a, b) == (a + b - 1) \div b

Conv2DTranspose_same(shape, filters, strides) ==
    <<shape[1] * strides, shape[2] * strides, filters>>

Conv2D_same(shape, filters, strides) ==
    <<CeilDiv(shape[1], strides), CeilDiv(shape[2], strides), filters>>

Conv2D_valid(shape, filters, kernel, strides) ==
    <<(shape[1] - kernel) \div strides + 1,
      (shape[2] - kernel) \div strides + 1, filters>>

\* Output shape per example of the generator built by class cls.
build_generator(cls) ==
    IF cls = "cWGAN_mnist"
    THEN LET r  == <<7, 7, 256>>
             t1 == Conv2DTranspose_same(r, 256, 1)
             t2 == Conv2DTranspose_same(t1, 128, 2)
         IN  Conv2DTranspose_same(t2, 1, 2)
    ELSE <<4>>

\* Output shape per example of the critic built by class cls.
build_critic(cls) ==
    IF cls = "cWGAN_mnist"
    THEN LET image == <<28, 28, 11>>
             z1 == Conv2D_same(image, 64, 2)
             z2 == Conv2D_same(z1, 128, 2)
             z3 == Conv2D_same(z2, 256, 2)
             z4 == Conv2D_same(z3, 512, 2)
         IN  Conv2D_valid(z4, 1, 2, 1)
    ELSE <<1>>

(***************************************************************************)
(* cWGAN.__init__(clip_value, noise_dims, optimizer, gen_lr, critic_lr,    *)
(* gp_weight), called with the positional arguments args.  A call with the *)
(* wrong number of arguments raises TypeError.  An optimizer name that is  *)
(* neither "RMSprop" nor "Adam" takes neither branch: the attributes       *)
(* critic_optimizer and generator_optimizer are never set.                 *)
(***************************************************************************)
cWGAN_init(cls, args) ==
    IF Len(args) # InitArity
    THEN [raised |-> "TypeError", model |-> NoModel]
    ELSE [raised |-> "none",
          model |->
            [cls |-> cls,
             clip_value |-> args[1],
             noise_dims |-> args[2],
             critic_optimizer |->
                 IF args[3] \in RecognizedOptimizers
                 THEN [kind |-> args[3], iterations |-> 0]
                 ELSE NoOptimizer,
             generator_optimizer |->
                 IF args[3] \in RecognizedOptimizers
                 THEN [kind |-> args[3], iterations |-> 0]
                 ELSE NoOptimizer,
             gp_weight |-> args[6],
             generator |-> 0,
             critic |-> 0,
             generator_out |-> build_generator(cls),
             critic_out |-> build_critic(cls)]]

\* The call of the model constructor made by the trainer class's __init__.
Trainer_init(c) ==
    IF c.trainer = "Trainer"
    THEN cWGAN_init("cWGAN", <<c.clip_value, c.noise_dims, c.optimizer,
                               c.gen_lr, c.critic_lr, c.gp_weight>>)
    ELSE cWGAN_init("cWGAN_mnist", <<c.clip_value, c.noise_dims,
                                     c.gen_lr, c.critic_lr, c.gp_weight>>)

(***************************************************************************)
(* One optimization step of each network.  apply_gradients is reached      *)
(* through the optimizer attribute; without it the call raises             *)
(* AttributeError and nothing is updated.  Each of train_critic and        *)
(* train_generator draws its own noise tensor, the one after the n drawn   *)
(* so far.                                                                 *)
(***************************************************************************)
apply_gradients(opt) == [opt EXCEPT !.iterations = @ + 1]

\* A train_critic whose gradient step also reaches the generator.
train_critic_shared(m, batch, n) ==
    IF m.critic_optimizer = NoOptimizer
    THEN [raised |-> "AttributeError", model |-> m,
          noise |-> n + 1,
          loss |-> [batch |-> batch, noise |-> n + 1, critic |-> m.critic,
                    generator |-> m.generator]]
    ELSE [raised |-> "none",
          model |-> [m EXCEPT !.critic = @ + 1,
                              !.generator = @ + 1,
                              !.critic_optimizer = apply_gradients(@)],
          noise |-> n + 1,
          loss |-> [batch |-> batch, noise |-> n + 1, critic |-> m.critic,
                    generator |-> m.generator]]

train_critic(m, batch, n) ==
    IF m.critic_optimizer = NoOptimizer
    THEN [raised |-> "AttributeError", model |-> m,
          noise |-> n + 1,
          loss |-> [batch |-> batch, noise |-> n + 1, critic |-> m.critic,
                    generator |-> m.generator]]
    ELSE [raised |-> "none",
          model |-> [m EXCEPT !.critic = @ + 1,
                              !.critic_optimizer = apply_gradients(@)],
          noise |-> n + 1,
          loss |-> [batch |-> batch, noise |-> n + 1, critic |-> m.critic,
                    generator |-> m.generator]]

train_generator(m, batch, n) ==
    IF m.generator_optimizer = NoOptimizer
    THEN [raised |-> "AttributeError", model |-> m,
          noise |-> n + 1,
          loss |-> [batch |-> batch, noise |-> n + 1, critic |-> m.critic,
                    generator |-> m.generator]]
    ELSE [raised |-> "none",
          model |-> [m EXCEPT !.generator = @ + 1,
                              !.generator_optimizer = apply_gradients(@)],
          noise |-> n + 1,
          loss |-> [batch |-> batch, noise |-> n + 1, critic |-> m.critic,
                    generator |-> m.generator]]

\* tf.random.uniform: a noise tensor no earlier call has returned.
random_uniform(n) == n + 1

\* -critic_loss(critic(x, y), critic(x, generator(x, noise))) on batch, the
\* noise being the one make_generator_predictions draws.
wass_estimate(m, batch, n) ==
    [batch |-> batch, noise |-> random_uniform(n), critic |-> m.critic,
     generator |-> m.generator]

\* A sampler that hands out the batch it handed out last.
sample_batch_of_data_stale(c, n) ==
    IF c.batch_size > c.num_training_examples
    THEN [raised |-> "ValueError", batch |-> 0]
    ELSE [raised |-> "none", batch |-> IF n = 0 THEN 1 ELSE n]

(***************************************************************************)
(* Trainer.sample_batch_of_data: np.random.choice without replacement      *)
(* raises ValueError when more items are asked than the data set holds.    *)
(***************************************************************************)
sample_batch_of_data(c, n) ==
    IF c.batch_size > c.num_training_examples
    THEN [raised |-> "ValueError", batch |-> 0]
    ELSE [raised |-> "none", batch |-> n + 1]

\* An append that stores into the last slot of a list that has one.
list_append_overwrite(list, v) ==
    IF list = <<>> THEN <<v>> ELSE [list EXCEPT ![Len(list)] = v]

list_append(list, v) == Append(list, v)

\* A loop bound that is one too large.
range_has_next_inclusive(i, n) == i <= n

\* range(n) still yields a value after i values.
range_has_next(i, n) == i < n

compute_batches_per_epoch(c) == c.num_training_examples \div c.batch_size

iteration_index(e, bpe, b) == e * bpe + b

\* A saving test that counts iterations from one.
should_save_shifted(iteration, c) ==
    (iteration + 1) % c.weight_saving_interval = 0

should_save(iteration, c) == iteration % c.weight_saving_interval = 0

Iteration == iteration_index(epoch, batches_per_epoch, batch_number)

Finished(step) == Append(trace, [step |-> step, iteration |-> Iteration])

(***************************************************************************)
(* The state before the trainer is constructed.                            *)
(***************************************************************************)
Configs ==
    [trainer : TrainerClasses,
     optimizer : OptimizerNames,
     clip_value : {1},
     noise_dims : {1},
     gen_lr : {1},
     critic_lr : {1},
     gp_weight : {1},
     epochs : 0..MaxEpochs,
     batch_size : 1..MaxBatch,
     num_training_examples : 0..MaxExamples,
     num_critic_iters : 0..MaxCriticIters,
     weight_saving_interval : 1..MaxInterval]

Init ==
    /\ cfg \in Configs
    /\ pc = "New"
    /\ error = "none"
    /\ model = NoModel
    /\ critic_losses = <<>>
    /\ generator_losses = <<>>
    /\ wass_estimates = <<>>
    /\ checkpoints = <<>>
    /\ batches_per_epoch = 0
    /\ epoch = 0
    /\ batch_number = 0
    /\ critic_iter = 0
    /\ draws = 0
    /\ x = 0
    /\ noise_draws = 0
    /\ trace = <<>>
    /\ call = NoCall
    /\ result = NoResult
    /\ weights = NoWeights

Raise(e) ==
    /\ pc' = "Raised"
    /\ error' = e

\* Trainer.__init__ / MNISTTrainer.__init__
Construct ==
    /\ pc = "New"
    /\ LET r == Trainer_init(cfg)
       IN  IF r.raised # "none"
           THEN /\ Raise(r.raised)
                /\ UNCHANGED model
           ELSE /\ model' = r.model
                /\ pc' = "Idle"
                /\ UNCHANGED error
    /\ UNCHANGED <<cfg, histories, checkpoints, loop_counters, draws, x,
                   noise_draws, trace, direct>>

\* train(): batches_per_epoch and the start of the epoch loop
StartTrain ==
    /\ pc = "Idle"
    /\ batches_per_epoch' = compute_batches_per_epoch(cfg)
    /\ epoch' = 0
    /\ pc' = "ForEpoch"
    /\ UNCHANGED <<cfg, error, model, histories, checkpoints, batch_number,
                   critic_iter, draws, x, noise_draws, trace, direct>>

\* for epoch in range(self.epochs)
ForEpoch ==
    /\ pc = "ForEpoch"
    /\ IF range_has_next(epoch, cfg.epochs)
       THEN /\ batch_number' = 0
            /\ pc' = "ForBatch"
       ELSE /\ pc' = "Done"
            /\ UNCHANGED batch_number
    /\ UNCHANGED <<cfg, error, model, histories, checkpoints,
                   batches_per_epoch, epoch, critic_iter, draws, x, noise_draws,
                   trace, direct>>

\* for batch_number in range(batches_per_epoch); at its end the epoch ends
ForBatch ==
    /\ pc = "ForBatch"
    /\ IF range_has_next(batch_number, batches_per_epoch)
       THEN /\ critic_iter' = 0
            /\ pc' = "ForCritic"
            /\ UNCHANGED epoch
       ELSE /\ epoch' = epoch + 1
            /\ pc' = "ForEpoch"
            /\ UNCHANGED critic_iter
    /\ UNCHANGED <<cfg, error, model, histories, checkpoints,
                   batches_per_epoch, batch_number, draws, x, noise_draws,
                   trace, direct>>

\* for critic_iter in range(self.num_critic_iters): self.take_critic_step()
TakeCriticStep ==
    /\ pc = "ForCritic"
    /\ range_has_next(critic_iter, cfg.num_critic_iters)
    /\ LET s == sample_batch_of_data(cfg, draws)
           r == train_critic(model, s.batch, noise_draws)
       IN  IF s.raised # "none"
           THEN /\ Raise(s.raised)
                /\ UNCHANGED <<model, critic_losses, draws, noise_draws,
                               critic_iter, trace>>
           ELSE IF r.raised # "none"
           THEN /\ Raise(r.raised)
                /\ draws' = s.batch
                /\ UNCHANGED <<model, critic_losses, noise_draws,
                               critic_iter, trace>>
           ELSE /\ draws' = s.batch
                /\ noise_draws' = r.noise
                /\ model' = r.model
                /\ critic_losses' = list_append(critic_losses, r.loss)
                /\ critic_iter' = critic_iter + 1
                /\ trace' = Finished("critic")
                /\ UNCHANGED <<pc, error>>
    /\ UNCHANGED <<cfg, generator_losses, wass_estimates, checkpoints,
                   batches_per_epoch, epoch, batch_number, x, direct>>

\* take_generator_step, its first half: sample, train_generator, append
TakeGeneratorStep ==
    /\ pc = "ForCritic"
    /\ ~range_has_next(critic_iter, cfg.num_critic_iters)
    /\ LET s == sample_batch_of_data(cfg, draws)
           r == train_generator(model, s.batch, noise_draws)
       IN  IF s.raised # "none"
           THEN /\ Raise(s.raised)
                /\ UNCHANGED <<model, generator_losses, draws, x,
                               noise_draws, trace>>
           ELSE IF r.raised # "none"
           THEN /\ Raise(r.raised)
                /\ draws' = s.batch
                /\ x' = s.batch
                /\ UNCHANGED <<model, generator_losses, noise_draws, trace>>
           ELSE /\ draws' = s.batch
                /\ x' = s.batch
                /\ noise_draws' = r.noise
                /\ model' = r.model
                /\ generator_losses' = list_append(generator_losses, r.loss)
                /\ trace' = Finished("generator")
                /\ pc' = "Estimate"
                /\ UNCHANGED error
    /\ UNCHANGED <<cfg, critic_losses, wass_estimates, checkpoints,
                   loop_counters, direct>>

\* take_generator_step, its second half: the Wasserstein estimate on x
EstimateWasserstein ==
    /\ pc = "Estimate"
    /\ wass_estimates' = list_append(wass_estimates,
                                     wass_estimate(model, x, noise_draws))
    /\ noise_draws' = random_uniform(noise_draws)
    /\ trace' = Finished("estimate")
    /\ pc' = "Checkpoint"
    /\ UNCHANGED <<cfg, error, model, critic_losses, generator_losses,
                   checkpoints, loop_counters, draws, x, direct>>

\* save_weights(iteration): the write succeeds or the file system raises
save_weights(iteration, ok) ==
    IF ok
    THEN [raised |-> "none",
          files |-> Append(checkpoints, [iteration |-> iteration,
                                         weights |-> model.generator])]
    ELSE [raised |-> "OSError", files |-> checkpoints]

\* iteration = ...; if iteration % weight_saving_interval == 0: save; print
Checkpoint ==
    /\ pc = "Checkpoint"
    /\ IF should_save(Iteration, cfg)
       THEN \E ok \in BOOLEAN :
              LET r == save_weights(Iteration, ok)
              IN  IF r.raised # "none"
                  THEN /\ Raise(r.raised)
                       /\ UNCHANGED <<checkpoints, batch_number, trace>>
                  ELSE /\ checkpoints' = r.files
                       /\ batch_number' = batch_number + 1
                       /\ trace' = Finished("checkpoint")
                       /\ pc' = "ForBatch"
                       /\ UNCHANGED error
       ELSE /\ batch_number' = batch_number + 1
            /\ trace' = Finished("checkpoint")
            /\ pc' = "ForBatch"
            /\ UNCHANGED <<error, checkpoints>>
    /\ UNCHANGED <<cfg, model, histories, batches_per_epoch, epoch,
                   critic_iter, draws, x, noise_draws, direct>>

Next ==
    \/ Construct
    \/ StartTrain
    \/ ForEpoch
    \/ ForBatch
    \/ TakeCriticStep
    \/ TakeGeneratorStep
    \/ EstimateWasserstein
    \/ Checkpoint

Spec == Init /\ [][Next]_vars

FairSpec == Spec /\ WF_vars(Next)

(***************************************************************************)
(* Numeric side: the scalars the loss functions compute.  A scalar is an   *)
(* exact fraction [num, den] in lowest terms with den > 0.                 *)
(***************************************************************************)
MaxScore == 1
MaxPenalty == 1
MaxGpWeight == 1

ModelClasses == {"cWGAN", "cWGAN_mnist"}

Abs(n) == IF n < 0 THEN -n ELSE n

RECURSIVE Gcd(_, _)
Gcd(a, b) == IF b = 0 THEN a ELSE Gcd(b, a % b)

Frac(n, d) ==
    LET g == Gcd(Abs(n), d)
    IN  [num |-> n \div g, den |-> d \div g]

FromInt(n) == [num |-> n, den |-> 1]

FracNeg(a) == [num |-> -a.num, den |-> a.den]

FracAdd(a, b) == Frac(a.num * b.den + b.num * a.den, a.den * b.den)

FracSub(a, b) == FracAdd(a, FracNeg(b))

RECURSIVE reduce_sum(_)
reduce_sum(t) == IF t = <<>> THEN 0 ELSE Head(t) + reduce_sum(Tail(t))

\* tf.math.reduce_mean of a batch of critic outputs
reduce_mean(t) == Frac(reduce_sum(t), Len(t))

\* A loss that leaves the sign of the difference of the means as it is.
critic_loss_unsigned(real_output, fake_output) ==
    FracSub(reduce_mean(real_output), reduce_mean(fake_output))

\* cWGAN.critic_loss
critic_loss(real_output, fake_output) ==
    FracNeg(FracSub(reduce_mean(real_output), reduce_mean(fake_output)))

(***************************************************************************)
(* The value train_critic differentiates and returns, for the critic       *)
(* outputs real_output and fake_output on the batch and the value gp of    *)
(* gradient_penalty(x, y, predicted_y) on it.  cWGAN adds the weighted     *)
(* penalty; the train_critic of cWGAN_mnist does not call it.              *)
(***************************************************************************)
critic_loss_val(m, real_output, fake_output, gp) ==
    IF m.cls = "cWGAN_mnist"
    THEN critic_loss(real_output, fake_output)
    ELSE FracAdd(critic_loss(real_output, fake_output),
                 FromInt(m.gp_weight * gp))

\* The number take_generator_step appends to wass_estimates, for the critic
\* outputs on the real and on the generated batch.
wass_estimate_val(real_output, fake_output) ==
    FracNeg(critic_loss(real_output, fake_output))

Scores == 0..MaxScore

\* Batches of critic outputs of either sign, of any length from one up.
SignedScores == (-MaxScore)..MaxScore

Batches == UNION {[1..n -> SignedScores] : n \in 1..MaxBatch}

OutputPairs ==
    UNION {[real_output : [1..n -> Scores], fake_output : [1..n -> Scores]] :
           n \in 1..MaxBatch}

DirectConfigs ==
    [trainer : {"none"},
     optimizer : OptimizerNames,
     clip_value : {1},
     noise_dims : {1},
     gen_lr : {1},
     critic_lr : {1},
     gp_weight : 0..MaxGpWeight,
     epochs : {0},
     batch_size : {1},
     num_training_examples : {0},
     num_critic_iters : {0},
     weight_saving_interval : {1}]

(***************************************************************************)
(* Weight clipping.  A network's weights are its layers' lists of weight   *)
(* tensors; the critic here has a layer without weights (an input or       *)
(* concatenate layer) and a Dense layer with a kernel and a bias.          *)
(***************************************************************************)
MaxWeight == 2
MaxClip == 1
KernelSize == 2

Min(a, b) == IF a < b THEN a ELSE b

Max(a, b) == IF a > b THEN a ELSE b

WeightValues == (-MaxWeight)..MaxWeight

Tensors(n) == [1..n -> WeightValues]

CriticWeights == {<< <<>>, <<k, b>> >> : k \in Tensors(KernelSize), b \in Tensors(1)}

GeneratorWeights == {<< <<k>> >> : k \in Tensors(1)}

ClipConfigs ==
    [trainer : {"none"},
     optimizer : {"Adam"},
     clip_value : (-MaxClip)..MaxClip,
     noise_dims : {1},
     gen_lr : {1},
     critic_lr : {1},
     gp_weight : {1},
     epochs : {0},
     batch_size : {1},
     num_training_examples : {0},
     num_critic_iters : {0},
     weight_saving_interval : {1}]

\* A clip that takes the range to start at zero.
clip_by_value_unsigned(t, clip_value_min, clip_value_max) ==
    [i \in 1..Len(t) |-> Max(Min(t[i], clip_value_max), 0)]

\* tf.clip_by_value: the minimum with the upper bound, then the maximum with
\* the lower bound, element by element.
clip_by_value(t, clip_value_min, clip_value_max) ==
    [i \in 1..Len(t) |-> Max(Min(t[i], clip_value_max), clip_value_min)]

\* cWGAN.clip_critic_weights: every weight tensor of every critic layer.
clip_critic_weights(m, w) ==
    [w EXCEPT !.critic =
        [l \in 1..Len(w.critic) |->
            [i \in 1..Len(w.critic[l]) |->
                clip_by_value(w.critic[l][i], -m.clip_value, m.clip_value)]]]

\* A model object built by calling its class with all six arguments, and
\* the tensors of the call about to be made on it.
TrainCriticInit ==
    /\ cfg \in DirectConfigs
    /\ \E io \in OutputPairs, gp \in 0..MaxPenalty :
         call = [method |-> "train_critic",
                 real_output |-> io.real_output,
                 fake_output |-> io.fake_output,
                 gp |-> gp]
    /\ weights = NoWeights

\* The object before clip_critic_weights is called on it: any clip_value,
\* any numbers in the weights; call.weights keeps them as they were then.
ClipInit ==
    /\ cfg \in ClipConfigs
    /\ weights \in [critic : CriticWeights, generator : GeneratorWeights]
    /\ call = [method |-> "clip_critic_weights", weights |-> weights]

\* critic_loss called on two batches of critic outputs, or the estimate of
\* take_generator_step computed from them.
CriticLossInit ==
    /\ cfg \in {c \in ClipConfigs : c.clip_value = 1}
    /\ \E method \in {"critic_loss", "wass_estimate"}, a \in Batches, b \in Batches :
         call = [method |-> method, real_output |-> a, fake_output |-> b]
    /\ weights = NoWeights

ModelInit ==
    /\ \/ TrainCriticInit
       \/ ClipInit
       \/ CriticLossInit
    /\ \E cls \in ModelClasses :
         model = cWGAN_init(cls, <<cfg.clip_value, cfg.noise_dims,
                                   cfg.optimizer, cfg.gen_lr, cfg.critic_lr,
                                   cfg.gp_weight>>).model
    /\ result = NoResult
    /\ pc = "Direct"
    /\ error = "none"
    /\ critic_losses = <<>>
    /\ generator_losses = <<>>
    /\ wass_estimates = <<>>
    /\ checkpoints = <<>>
    /\ batches_per_epoch = 0
    /\ epoch = 0
    /\ batch_number = 0
    /\ critic_iter = 0
    /\ draws = 0
    /\ x = 0
    /\ noise_draws = 0
    /\ trace = <<>>

\* model.train_critic(x, y) called directly on one batch
CallTrainCritic ==
    /\ pc = "Direct"
    /\ call.method = "train_critic"
    /\ LET r == train_critic(model, 1, noise_draws)
       IN  IF r.raised # "none"
           THEN /\ Raise(r.raised)
                /\ UNCHANGED <<model, result, noise_draws>>
           ELSE /\ model' = r.model
                /\ noise_draws' = r.noise
                /\ result' = critic_loss_val(model, call.real_output,
                                             call.fake_output, call.gp)
                /\ pc' = "Returned"
                /\ UNCHANGED error
    /\ UNCHANGED <<cfg, histories, checkpoints, loop_counters, draws, x, trace,
                   call, weights>>

\* model.clip_critic_weights() called directly, a first and a second time
CallClipCriticWeights ==
    /\ pc \in {"Direct", "Clipped"}
    /\ call.method = "clip_critic_weights"
    /\ weights' = clip_critic_weights(model, weights)
    /\ pc' = IF pc = "Direct" THEN "Clipped" ELSE "ClippedTwice"
    /\ UNCHANGED <<cfg, error, model, histories, checkpoints, loop_counters,
                   draws, x, noise_draws, trace, call, result>>

\* model.critic_loss(real_output, fake_output) called directly
CallCriticLoss ==
    /\ pc = "Direct"
    /\ call.method = "critic_loss"
    /\ result' = critic_loss(call.real_output, call.fake_output)
    /\ pc' = "Returned"
    /\ UNCHANGED <<cfg, error, model, histories, checkpoints, loop_counters,
                   draws, x, noise_draws, trace, call, weights>>

\* the last two lines of take_generator_step, on the critic's two outputs
CallWassEstimate ==
    /\ pc = "Direct"
    /\ call.method = "wass_estimate"
    /\ result' = wass_estimate_val(call.real_output, call.fake_output)
    /\ pc' = "Returned"
    /\ UNCHANGED <<cfg, error, model, histories, checkpoints, loop_counters,
                   draws, x, noise_draws, trace, call, weights>>

ModelNext ==
    \/ CallTrainCritic
    \/ CallClipCriticWeights
    \/ CallCriticLoss
    \/ CallWassEstimate

ModelSpec == ModelInit /\ [][ModelNext]_vars

(***************************************************************************)
(* Properties.                                                             *)
(***************************************************************************)
IsPrefix(s, t) == Len(s) <= Len(t) /\ SubSeq(t, 1, Len(s)) = s

IsAppendOne(s, t) == Len(t) = Len(s) + 1 /\ SubSeq(t, 1, Len(s)) = s

\* The steps of one iteration: the critic steps, the generator step, the
\* Wasserstein estimate, the checkpoint decision.
Period == cfg.num_critic_iters + 3

StepAt(p) ==
    LET k == (p - 1) % Period
    IN  IF k < cfg.num_critic_iters THEN "critic"
        ELSE IF k = cfg.num_critic_iters THEN "generator"
        ELSE IF k = cfg.num_critic_iters + 1 THEN "estimate"
        ELSE "checkpoint"

\* Iterations whose checkpoint decision has finished.
CompletedIterations ==
    Cardinality({p \in 1..Len(trace) : trace[p].step = "checkpoint"})

TotalIterations ==
    cfg.epochs * (cfg.num_training_examples \div cfg.batch_size)

TrainCalled == cfg.trainer = "Trainer" /\ pc \notin {"New", "Idle"}

\* C1: the steps train() finishes are, in order, num_critic_iters critic
\* steps, one generator step, its Wasserstein estimate and the checkpoint
\* decision, iteration after iteration; the generator step number k is
\* computed with the critic after exactly k * num_critic_iters updates and
\* every critic step of iteration i with the generator after exactly i.
C1_Cadence ==
    /\ \A p \in 1..Len(trace) :
         /\ trace[p].step = StepAt(p)
         /\ trace[p].iteration = (p - 1) \div Period
    /\ \A k \in 1..Len(generator_losses) :
         /\ generator_losses[k].critic = k * cfg.num_critic_iters
         /\ generator_losses[k].generator = k - 1
    /\ \A j \in 1..Len(critic_losses) :
         /\ cfg.num_critic_iters > 0
         /\ critic_losses[j].critic = j - 1
         /\ critic_losses[j].generator = (j - 1) \div cfg.num_critic_iters

C1_Witness ==
    /\ cfg.num_critic_iters = 2
    /\ Len(generator_losses) = 2
    /\ Len(critic_losses) = 5
    /\ pc = "ForCritic"

\* C2: once train() has been called and has stopped, it has stopped in Done
\* after exactly epochs * (num_training_examples // batch_size) iterations
\* with indices 0, 1, 2, ... in order.
C2_ReachesDone ==
    (TrainCalled /\ pc \in {"Done", "Raised"}) =>
        /\ pc = "Done"
        /\ CompletedIterations = TotalIterations
        /\ Len(generator_losses) = TotalIterations
        /\ \A p \in 1..Len(trace) : trace[p].iteration = (p - 1) \div Period

\* C3: every history only grows at its end; a critic step appends one entry
\* to critic_losses only, a generator step one to generator_losses only, its
\* estimate one to wass_estimates only; at an iteration boundary after k
\* iterations the lengths are k * num_critic_iters, k and k.
C3_Lengths ==
    /\ Len(wass_estimates) =
         Len(generator_losses) - (IF pc = "Estimate" THEN 1 ELSE 0)
    /\ pc \in {"ForBatch", "ForEpoch", "Done"} =>
         /\ Len(critic_losses) = CompletedIterations * cfg.num_critic_iters
         /\ Len(generator_losses) = CompletedIterations
         /\ Len(wass_estimates) = CompletedIterations

C3_AppendOnly ==
    /\ []C3_Lengths
    /\ [][/\ IsPrefix(critic_losses, critic_losses')
          /\ IsPrefix(generator_losses, generator_losses')
          /\ IsPrefix(wass_estimates, wass_estimates')
          /\ (TakeCriticStep /\ pc' # "Raised") =>
                /\ IsAppendOne(critic_losses, critic_losses')
                /\ UNCHANGED <<generator_losses, wass_estimates>>
          /\ (TakeGeneratorStep /\ pc' # "Raised") =>
                /\ IsAppendOne(generator_losses, generator_losses')
                /\ UNCHANGED <<critic_losses, wass_estimates>>
          /\ EstimateWasserstein =>
                /\ IsAppendOne(wass_estimates, wass_estimates')
                /\ UNCHANGED <<critic_losses, generator_losses>>
          /\ (Construct \/ StartTrain \/ ForEpoch \/ ForBatch \/ Checkpoint) =>
                UNCHANGED histories]_vars

C3_Witness ==
    /\ pc = "ForBatch"
    /\ cfg.num_critic_iters = 2
    /\ Len(critic_losses) = 4
    /\ Len(generator_losses) = 2
    /\ Len(wass_estimates) = 2

\* C4: among the iterations whose checkpoint decision has finished, exactly
\* those with i % weight_saving_interval = 0 have a checkpoint; a checkpoint
\* keyed i holds the generator as it is after the generator step of
\* iteration i; no key is written twice.
C4_Checkpoints ==
    /\ \A i \in 0..(CompletedIterations - 1) :
         (\E k \in 1..Len(checkpoints) : checkpoints[k].iteration = i)
            <=> (i % cfg.weight_saving_interval = 0)
    /\ \A k \in 1..Len(checkpoints) :
         /\ checkpoints[k].iteration % cfg.weight_saving_interval = 0
         /\ checkpoints[k].iteration < CompletedIterations
         /\ checkpoints[k].weights = checkpoints[k].iteration + 1
         /\ checkpoints[k].iteration < Len(generator_losses)
    /\ \A k, l \in 1..Len(checkpoints) :
         checkpoints[k].iteration = checkpoints[l].iteration => k = l
    /\ (cfg.trainer = "Trainer" /\ CompletedIterations > 0) =>
         checkpoints # <<>> /\ checkpoints[1].iteration = 0

C4_Witness ==
    /\ cfg.weight_saving_interval = 2
    /\ CompletedIterations = 4
    /\ Len(checkpoints) = 2
    /\ checkpoints[2].iteration = 2

\* C5: a critic step leaves the generator's parameters and optimizer as they
\* are and moves the critic's; a generator step leaves the critic's
\* parameters and optimizer as they are and moves the generator's; the
\* Wasserstein estimate and the checkpoint decision leave the whole model as
\* it is.
C5_ExclusiveMutation ==
    [][/\ TakeCriticStep =>
            /\ model'.generator = model.generator
            /\ model'.generator_optimizer = model.generator_optimizer
            /\ pc' # "Raised" =>
                 /\ model'.critic # model.critic
                 /\ model'.critic_optimizer # model.critic_optimizer
       /\ TakeGeneratorStep =>
            /\ model'.critic = model.critic
            /\ model'.critic_optimizer = model.critic_optimizer
            /\ pc' # "Raised" =>
                 /\ model'.generator # model.generator
                 /\ model'.generator_optimizer # model.generator_optimizer
       /\ (EstimateWasserstein \/ Checkpoint) => model' = model]_vars

C5_Witness ==
    /\ pc = "ForBatch"
    /\ model.cls = "cWGAN"
    /\ model.critic = 2
    /\ model.generator = 1
    /\ Len(wass_estimates) = 1
    /\ Len(checkpoints) = 1

\* C6: a trainer given an optimizer name other than "Adam" and "RMSprop" is
\* not constructed: construction ends in ConfigurationError and leaves no
\* model object.
C6_UnknownOptimizerRejected ==
    (cfg.trainer = "Trainer" /\ cfg.optimizer \notin RecognizedOptimizers
        /\ pc # "New") =>
        /\ pc = "Raised"
        /\ error = "ConfigurationError"
        /\ model = NoModel

\* C7: with batch_size > num_training_examples a train() that has epochs to
\* run does not complete silently: it never reaches Done, and a run that has
\* stopped has stopped with InsufficientDataError.
C7_InsufficientData ==
    (TrainCalled /\ cfg.batch_size > cfg.num_training_examples
        /\ cfg.epochs >= 1) =>
        /\ pc # "Done"
        /\ pc = "Raised" => error = "InsufficientDataError"

\* C8: when the write of a checkpoint fails, train() goes on with the next
\* iteration, the histories and the model being what they were.
C8_SaveFailureTolerated ==
    [][(pc = "Checkpoint" /\ error' # error) =>
          /\ pc' = "ForBatch"
          /\ batch_number' = batch_number + 1
          /\ UNCHANGED <<histories, model>>]_vars

\* C9: in both classes the value train_critic returns is
\* critic_loss(real_output, fake_output) + gp_weight * gradient_penalty.
C9_SameObjective ==
    (pc = "Returned" /\ call.method = "train_critic") =>
        result = FracAdd(critic_loss(call.real_output, call.fake_output),
                         FromInt(model.gp_weight * call.gp))

\* C10: an MNISTTrainer given a valid configuration is constructed, with a
\* generator whose output per example has shape (28, 28, 1) and a critic
\* whose output per example is one scalar.
C10_ImageVariantConstructs ==
    (cfg.trainer = "MNISTTrainer" /\ cfg.optimizer \in RecognizedOptimizers
        /\ pc # "New") =>
        /\ pc # "Raised"
        /\ model.cls = "cWGAN_mnist"
        /\ model.generator_out = <<28, 28, 1>>
        /\ model.critic_out = <<1, 1, 1>>

\* The batch draws and the noise draws the recorded values were computed from.
UpdateBatches ==
    {critic_losses[j].batch : j \in 1..Len(critic_losses)}
        \cup {generator_losses[k].batch : k \in 1..Len(generator_losses)}

RecordedNoises ==
    {critic_losses[j].noise : j \in 1..Len(critic_losses)}
        \cup {generator_losses[k].noise : k \in 1..Len(generator_losses)}
        \cup {wass_estimates[k].noise : k \in 1..Len(wass_estimates)}

\* C11: the parameter updates made so far used pairwise different batch
\* draws, each one a draw made so far; at an iteration boundary after k
\* iterations exactly k * (num_critic_iters + 1) batches have been drawn;
\* the Wasserstein estimate number k is computed on the batch of the
\* generator step number k, with the generator as that step left it, with
\* the critic that step read, and with a noise tensor no other recorded
\* value was computed from.
C11_FreshBatches ==
    /\ Cardinality(UpdateBatches) =
         Len(critic_losses) + Len(generator_losses)
    /\ UpdateBatches \subseteq 1..draws
    /\ pc \in {"ForBatch", "ForEpoch", "Done"} =>
         draws = CompletedIterations * (cfg.num_critic_iters + 1)
    /\ \A k \in 1..Len(wass_estimates) :
         /\ wass_estimates[k].batch = generator_losses[k].batch
         /\ wass_estimates[k].generator = generator_losses[k].generator + 1
         /\ wass_estimates[k].critic = generator_losses[k].critic
         /\ wass_estimates[k].noise # generator_losses[k].noise
    /\ Cardinality(RecordedNoises) =
         Len(critic_losses) + Len(generator_losses) + Len(wass_estimates)
    /\ RecordedNoises \subseteq 1..noise_draws
    /\ model # NoModel =>
         /\ model.critic = Len(critic_losses)
         /\ model.generator = Len(generator_losses)

C11_Witness ==
    /\ pc = "ForBatch"
    /\ cfg.num_critic_iters = 2
    /\ CompletedIterations = 2
    /\ draws = 6
    /\ wass_estimates[2].batch = 6
    /\ noise_draws = 8

\* The numbers in a network's weights, layer by layer, tensor by tensor.
RECURSIVE Flatten(_)
Flatten(ss) == IF ss = <<>> THEN <<>> ELSE Head(ss) \o Flatten(Tail(ss))

Elements(layers) == Flatten(Flatten(layers))

InClipRange(p) == -model.clip_value <= p /\ p <= model.clip_value

ClipKeepsInside ==
    LET before == Elements(call.weights.critic)
        after  == Elements(weights.critic)
    IN  /\ Len(after) = Len(before)
        /\ \A e \in 1..Len(before) : InClipRange(before[e]) => after[e] = before[e]

ClipIsIdempotent ==
    /\ clip_critic_weights(model, weights) = weights
    /\ pc = "ClippedTwice" =>
         weights = clip_critic_weights(model, call.weights)

ClipBounds ==
    \A e \in 1..Len(Elements(weights.critic)) :
        InClipRange(Elements(weights.critic)[e])

C13_Antisymmetric ==
    /\ (pc = "Returned" /\ call.method = "critic_loss") =>
         /\ result = FracNeg(critic_loss(call.fake_output, call.real_output))
         /\ call.real_output = call.fake_output => result = FromInt(0)
    /\ (pc = "Returned" /\ call.method = "wass_estimate") =>
         /\ result = FracNeg(critic_loss(call.real_output, call.fake_output))
         /\ result = FracSub(reduce_mean(call.real_output),
                             reduce_mean(call.fake_output))
         /\ result.num * Len(call.real_output) * Len(call.fake_output) =
              result.den * (reduce_sum(call.real_output) * Len(call.fake_output)
                            - reduce_sum(call.fake_output) * Len(call.real_output))

C13_Witness ==
    /\ pc = "Returned"
    /\ call.method = "wass_estimate"
    /\ call.real_output = <<1, 0>>
    /\ call.fake_output = <<-1>>
    /\ result = [num |-> 3, den |-> 2]

====
